---- MODULE Spec2Model ----
(***************************************************************************)
(* Election subsystem of BigchainDB (bigchaindb/elections/election.py):    *)
(* validation of election transactions, vote tallying, the election status *)
(* and the per-block approval driver, over an abstract chain facade.       *)
(***************************************************************************)
EXTENDS Integers, Sequences, FiniteSets, TLC

VARIABLES
    blocks,     \* committed blocks; blocks[h] is the transaction list of height h
    changes,    \* validator changes, in recording order: [height, validators]
    results,    \* persisted election results, in storing order: [election_id, height]
    approvals,  \* on_approval invocations, in order: [election_id, height]
    updates,    \* what on_approval returned, in order, in the latest approved_elections call
    ret,        \* list returned by the latest approved_elections call
    vin,        \* arguments of the method called on its own (validate: [tx, current_transactions])
    vout        \* outcome of that call: for validate "OK" or the exception raised, "-" before
                \* the call; for the other methods <<value returned>>, <<>> before the call

vars == <<blocks, changes, results, approvals, updates, ret, vin, vout>>

(***************************************************************************)
(* Bounds of the model.                                                    *)
(***************************************************************************)
MaxHeight == 3      \* committed blocks
MaxBlockTxs == 2    \* transactions per block
MaxChanges == 1     \* validator changes recorded after genesis
MaxOutputs == 2     \* outputs of an election handed to validate
MaxPower == 15      \* total voting power, committed and pending votes handed to has_concluded
MaxOffset == 2      \* distance of a large tally or total from its anchor

(***************************************************************************)
(* Values.                                                                 *)
(***************************************************************************)
ONGOING == "ongoing"
CONCLUDED == "concluded"
INCONCLUSIVE == "inconclusive"
VOTE == "VOTE"
ELECTION == "ELECTION"
TRANSFER == "TRANSFER"
NULL == "null"

\* Truth value of what a hook returns, as "if validator_update" takes it:
\* None is false, and so is an empty value.
truthy(value) == value # NULL /\ value # ""

\* Election ids, in the order in which elections are proposed.
ElectionOrder == <<"e1", "e2">>
ElectionIds == {ElectionOrder[i] : i \in DOMAIN ElectionOrder}

\* Validators as the chain reports them: Tendermint (base64) public key and power.
Validator(b64, power) == [public_key |-> [value |-> b64], voting_power |-> power]
ValidatorsA2B1 == <<Validator("QQ==", 2), Validator("Qg==", 1)>>
ValidatorsA2B2 == <<Validator("QQ==", 2), Validator("Qg==", 2)>>
ValidatorsA1 == <<Validator("QQ==", 1)>>
ValidatorLists == {ValidatorsA2B1, ValidatorsA2B2, ValidatorsA1}

EmptyDict == [k \in {} |-> 0]
NoChange == [height |-> -1, validators |-> <<>>]
NoTx == [op |-> "none", id |-> "-", asset_id |-> "-", signers |-> <<>>,
         outputs |-> <<>>, sig |-> FALSE, spends |-> 0]

Output(public_keys, amount) == [public_keys |-> public_keys, amount |-> amount]

Range(s) == {s[i] : i \in DOMAIN s}

\* sum(dict.values())
RECURSIVE sum_values(_)
sum_values(d) ==
    IF DOMAIN d = {} THEN 0
    ELSE LET k == CHOOSE k \in DOMAIN d : TRUE
         IN d[k] + sum_values([j \in DOMAIN d \ {k} |-> d[j]])

(***************************************************************************)
(* Numbers of the threshold test.  Python integers are unbounded and       *)
(* (2/3) * total_votes is a float (IEEE 754 double: 53 bits of mantissa,   *)
(* round to nearest, ties to even).  Integers are held as lists of limbs,  *)
(* least significant first, without leading zero limb; a float as          *)
(* [m, e], the value m * 2^e.                                              *)
(***************************************************************************)
LimbBits == 15
Base == 2^LimbBits
MantissaBits == 53
MaxExponent == 1024

\* What a conversion gives in place of a float when it raises.
OverflowError == [raises |-> "OverflowError"]

\* The limbs of a natural number.
RECURSIVE big(_)
big(n) == IF n = 0 THEN <<>> ELSE <<n % Base>> \o big(n \div Base)

RECURSIVE big_norm(_)
big_norm(a) ==
    IF a = <<>> THEN a
    ELSE IF a[Len(a)] = 0 THEN big_norm(SubSeq(a, 1, Len(a) - 1))
    ELSE a

RECURSIVE big_add(_, _, _)
big_add(a, b, carry) ==
    IF a = <<>> /\ b = <<>> THEN (IF carry = 0 THEN <<>> ELSE <<carry>>)
    ELSE LET x == (IF a = <<>> THEN 0 ELSE a[1]) + (IF b = <<>> THEN 0 ELSE b[1]) + carry
         IN <<x % Base>> \o big_add(IF a = <<>> THEN a ELSE Tail(a),
                                     IF b = <<>> THEN b ELSE Tail(b), x \div Base)

\* a * m + carry for one limb m.
RECURSIVE big_mul_limb(_, _, _)
big_mul_limb(a, m, carry) ==
    IF a = <<>> THEN (IF carry = 0 THEN <<>> ELSE <<carry>>)
    ELSE LET x == a[1] * m + carry
         IN <<x % Base>> \o big_mul_limb(Tail(a), m, x \div Base)

RECURSIVE big_mul(_, _)
big_mul(a, b) ==
    IF a = <<>> \/ b = <<>> THEN <<>>
    ELSE LET rest == big_mul(a, Tail(b))
         IN IF rest = <<>> THEN big_norm(big_mul_limb(a, b[1], 0))
            ELSE big_norm(big_add(big_mul_limb(a, b[1], 0), <<0>> \o rest, 0))

RECURSIVE bit_length(_)
bit_length(x) == IF x = 0 THEN 0 ELSE 1 + bit_length(x \div 2)

\* Number of bits of a.
big_bits(a) ==
    IF a = <<>> THEN 0 ELSE LimbBits * (Len(a) - 1) + bit_length(a[Len(a)])

\* a * 2^k.
big_shl(a, k) ==
    IF a = <<>> THEN a
    ELSE [i \in 1..(k \div LimbBits) |-> 0] \o big_mul_limb(a, 2^(k % LimbBits), 0)

\* a \div 2^k.
big_shr(a, k) ==
    LET q == k \div LimbBits
        r == k % LimbBits
        d == IF q >= Len(a) THEN <<>> ELSE SubSeq(a, q + 1, Len(a))
    IN big_norm([i \in DOMAIN d |->
                    (d[i] \div 2^r)
                    + (IF i < Len(d) THEN (d[i + 1] % 2^r) * 2^(LimbBits - r) ELSE 0)])

\* a % 2^k.
big_low(a, k) ==
    LET q == k \div LimbBits
        r == k % LimbBits
    IN IF q >= Len(a) THEN a
       ELSE big_norm(SubSeq(a, 1, q) \o <<a[q + 1] % 2^r>>)

\* -1, 0 or 1 as a is below, equal to or above b.
RECURSIVE big_cmp_from(_, _, _)
big_cmp_from(a, b, i) ==
    IF i = 0 THEN 0
    ELSE IF a[i] < b[i] THEN -1
    ELSE IF a[i] > b[i] THEN 1
    ELSE big_cmp_from(a, b, i - 1)

big_cmp(a, b) ==
    IF Len(a) < Len(b) THEN -1
    ELSE IF Len(a) > Len(b) THEN 1
    ELSE big_cmp_from(a, b, Len(a))

\* The float nearest to n * 2^e: the mantissa is cut to MantissaBits bits,
\* rounded to nearest, a tie to the even mantissa.
float_round(n, e) ==
    LET bits == big_bits(n)
    IN IF bits <= MantissaBits THEN [m |-> n, e |-> e]
       ELSE LET s == bits - MantissaBits
                q == big_shr(n, s)
                above == big_cmp(big_low(n, s), big_shl(<<1>>, s - 1))
                up == above > 0 \/ (above = 0 /\ q[1] % 2 = 1)
            IN [m |-> IF up THEN big_add(q, <<1>>, 0) ELSE q, e |-> e + s]

\* Whether the float nearest to the integer n is 2^MaxExponent or more
\* ("int too large to convert to float").
float_bits(x) == big_bits(x.m) + x.e

int_too_large(n) ==
    /\ big_bits(n) >= MaxExponent
    /\ float_bits(float_round(n, 0)) > MaxExponent

\* float(n) for an integer n: the nearest float, OverflowError when there is
\* none.
float_of_int(n) == IF int_too_large(n) THEN OverflowError ELSE float_round(n, 0)

\* x * y for a float x and an integer y converted to a float: the
\* conversion's OverflowError goes through.
float_mul(x, y) ==
    IF y = OverflowError THEN OverflowError
    ELSE float_round(big_mul(x.m, y.m), x.e + y.e)

\* -1, 0 or 1 as the integer n is below, equal to or above the float x
\* (Python compares an int with a float exactly).
int_cmp_float(n, x) ==
    IF x.e >= 0 THEN big_cmp(n, big_shl(x.m, x.e))
    ELSE big_cmp(big_shl(n, -x.e), x.m)

\* 2 / 3: the float 6004799503160661 * 2^-53.
ELECTION_THRESHOLD == [m |-> <<21845, 10922, 21845, 170>>, e |-> -53]

(***************************************************************************)
(* Chain facade (bigchaindb.lib.BigchainDB and backend.query).             *)
(***************************************************************************)
\* All committed transactions, in block order.
RECURSIVE Flatten(_)
Flatten(bs) == IF bs = <<>> THEN <<>> ELSE bs[1] \o Flatten(Tail(bs))

committed_txs == Flatten(blocks)

\* bigchain.get_latest_block(): height of the latest block, 0 for None.
get_latest_block == Len(blocks)

\* bigchain.get_validator_change(height): the latest change at or below height.
bigchain_get_validator_change(height) ==
    LET upto == {i \in DOMAIN changes : changes[i].height <= height}
    IN IF upto = {} THEN NoChange
       ELSE changes[CHOOSE i \in upto : \A j \in upto : changes[j].height <= changes[i].height]

\* bigchain.get_validators(None): the validators of the latest change.
bigchain_get_validators ==
    IF changes = <<>> THEN <<>> ELSE changes[Len(changes)].validators

is_committed(id) == \E i \in DOMAIN committed_txs : committed_txs[i].id = id

\* bigchain.get_block_containing_tx(id): heights of the blocks holding id.
RECURSIVE heights_containing(_, _)
heights_containing(id, h) ==
    IF h > Len(blocks) THEN <<>>
    ELSE (IF \E i \in DOMAIN blocks[h] : blocks[h][i].id = id THEN <<h>> ELSE <<>>)
         \o heights_containing(id, h + 1)

get_block_containing_tx(id) == heights_containing(id, 1)

\* bigchain.get_transaction(id): the committed transaction, NoTx for None.
get_transaction(id) ==
    IF is_committed(id)
    THEN committed_txs[CHOOSE i \in DOMAIN committed_txs :
                          /\ committed_txs[i].id = id
                          /\ \A j \in DOMAIN committed_txs :
                                committed_txs[j].id = id => i <= j]
    ELSE NoTx

\* bigchain.get_election(id): a persisted result exists.
get_election(election_id) == \E i \in DOMAIN results : results[i].election_id = election_id

\* backend.query.get_asset_tokens_for_public_key(conn, asset_id, pk)
get_asset_tokens_for_public_key(asset_id, public_key) ==
    LET match(tx) == /\ tx.asset_id = asset_id
                     /\ \E o \in DOMAIN tx.outputs :
                           public_key \in Range(tx.outputs[o].public_keys)
    IN SelectSeq(committed_txs, match)

(***************************************************************************)
(* Keys.                                                                   *)
(***************************************************************************)
\* public_key_from_ed25519_key(key_from_base64(value)): base64 -> base58 key.
public_key_from_base64(value) ==
    CASE value = "QQ==" -> "A"
      [] value = "Qg==" -> "B"
      [] value = "Qw==" -> "C"
      [] OTHER -> "?" \o value

\* Election.to_public_key: base58 of the hex-decoded election id.
to_public_key(election_id) == "pk_" \o election_id

(***************************************************************************)
(* Election (election.py).                                                 *)
(***************************************************************************)
\* Election.get_validator_change
get_validator_change ==
    LET latest_block == get_latest_block
    IN IF latest_block = 0 THEN NoChange
       ELSE bigchain_get_validator_change(latest_block)

\* Election.get_validators: dictionary public key -> voting power.
RECURSIVE validators_dict(_, _)
validators_dict(list, validators) ==
    IF list = <<>> THEN validators
    ELSE LET public_key == public_key_from_base64(list[1].public_key.value)
         IN validators_dict(Tail(list),
                [k \in DOMAIN validators \cup {public_key} |->
                    IF k = public_key THEN list[1].voting_power ELSE validators[k]])

get_validators == validators_dict(bigchain_get_validators, EmptyDict)

\* Election.recipients: one ([public_key], voting_power) per item of the
\* dictionary get_validators, in the order in which the keys were first
\* inserted, each with the power inserted last.
RECURSIVE recipients_from(_, _, _)
recipients_from(list, i, validators) ==
    IF i > Len(list) THEN <<>>
    ELSE LET public_key == public_key_from_base64(list[i].public_key.value)
             earlier == \E j \in 1..(i - 1) :
                           public_key_from_base64(list[j].public_key.value) = public_key
         IN (IF earlier THEN <<>> ELSE <<Output(<<public_key>>, validators[public_key])>>)
            \o recipients_from(list, i + 1, validators)

recipients == recipients_from(bigchain_get_validators, 1, get_validators)

\* Election.is_same_topology: [exc, value]; exc is the exception raised, if any.
RECURSIVE same_topology_loop(_, _, _)
same_topology_loop(current_topology, election_topology, voters) ==
    IF election_topology = <<>>
    THEN [exc |-> "none", value |-> current_topology = voters]
    ELSE LET voter == election_topology[1]
         IN IF Len(voter.public_keys) > 1
            THEN [exc |-> "none", value |-> FALSE]
            ELSE IF Len(voter.public_keys) # 1
            THEN [exc |-> "ValueError", value |-> FALSE]
            ELSE LET public_key == voter.public_keys[1]
                 IN same_topology_loop(current_topology, Tail(election_topology),
                        [k \in DOMAIN voters \cup {public_key} |->
                            IF k = public_key THEN voter.amount ELSE voters[k]])

is_same_topology(current_topology, election_topology) ==
    same_topology_loop(current_topology, election_topology, EmptyDict)

\* validate with the topology check ahead of the proposer check.
validate_topology_first(self, current_transactions) ==
    LET duplicates == \E i \in DOMAIN current_transactions :
                         current_transactions[i].id = self.id
        current_validators == get_validators
        same == is_same_topology(current_validators, self.outputs)
    IN IF is_committed(self.id) \/ duplicates THEN "DuplicateTransaction"
       ELSE IF ~self.sig THEN "InvalidSignature"
       ELSE IF Len(self.signers) # 1 \/ Len(self.signers[1]) # 1
       THEN "MultipleInputsError"
       ELSE IF same.exc # "none" THEN same.exc
       ELSE IF ~same.value THEN "UnequalValidatorSet"
       ELSE IF self.signers[1][1] \notin DOMAIN current_validators
       THEN "InvalidProposer"
       ELSE "OK"

\* validate without the duplicate check.
validate_no_duplicates(self, current_transactions) ==
    LET current_validators == get_validators
    IN IF ~self.sig THEN "InvalidSignature"
       ELSE IF Len(self.signers) # 1 \/ Len(self.signers[1]) # 1
       THEN "MultipleInputsError"
       ELSE IF self.signers[1][1] \notin DOMAIN current_validators
       THEN "InvalidProposer"
       ELSE LET same == is_same_topology(current_validators, self.outputs)
            IN IF same.exc # "none" THEN same.exc
               ELSE IF ~same.value THEN "UnequalValidatorSet"
               ELSE "OK"

\* validate without the proposer check.
validate_any_proposer(self, current_transactions) ==
    LET duplicates == \E i \in DOMAIN current_transactions :
                         current_transactions[i].id = self.id
        current_validators == get_validators
    IN IF is_committed(self.id) \/ duplicates THEN "DuplicateTransaction"
       ELSE IF ~self.sig THEN "InvalidSignature"
       ELSE IF Len(self.signers) # 1 \/ Len(self.signers[1]) # 1
       THEN "MultipleInputsError"
       ELSE LET same == is_same_topology(current_validators, self.outputs)
            IN IF same.exc # "none" THEN same.exc
               ELSE IF ~same.value THEN "UnequalValidatorSet"
               ELSE "OK"

\* Election.validate: "OK" when the election is returned, else the exception.
validate(self, current_transactions) ==
    LET duplicates == \E i \in DOMAIN current_transactions :
                         current_transactions[i].id = self.id
        current_validators == get_validators
    IN IF is_committed(self.id) \/ duplicates THEN "DuplicateTransaction"
       ELSE IF ~self.sig THEN "InvalidSignature"
       ELSE IF Len(self.signers) # 1 \/ Len(self.signers[1]) # 1
       THEN "MultipleInputsError"
       ELSE IF self.signers[1][1] \notin DOMAIN current_validators
       THEN "InvalidProposer"
       ELSE LET same == is_same_topology(current_validators, self.outputs)
            IN IF same.exc # "none" THEN same.exc
               ELSE IF ~same.value THEN "UnequalValidatorSet"
               ELSE "OK"

\* count_votes counting every output that names election_pk, alone or not.
RECURSIVE count_outputs_any_key(_, _)
RECURSIVE count_outputs(_, _)
count_outputs_any_key(election_pk, outputs) ==
    IF outputs = <<>> THEN 0
    ELSE (IF election_pk \in Range(outputs[1].public_keys)
          THEN outputs[1].amount ELSE 0)
         + count_outputs_any_key(election_pk, Tail(outputs))

\* Election.count_votes, the loop over the outputs of one transaction.
count_outputs(election_pk, outputs) ==
    IF outputs = <<>> THEN 0
    ELSE (IF Len(outputs[1].public_keys) = 1 /\ <<election_pk>> = outputs[1].public_keys
          THEN outputs[1].amount ELSE 0)
         + count_outputs(election_pk, Tail(outputs))

RECURSIVE count_votes(_, _)
count_votes(election_pk, transactions) ==
    IF transactions = <<>> THEN 0
    ELSE (IF transactions[1].op = VOTE
          THEN count_outputs(election_pk, transactions[1].outputs) ELSE 0)
         + count_votes(election_pk, Tail(transactions))

\* Election.get_commited_votes
get_commited_votes(self) ==
    LET election_pk == to_public_key(self.id)
    IN count_votes(election_pk, get_asset_tokens_for_public_key(self.id, election_pk))

\* has_validator_set_changed counting a change at the election's own height.
has_validator_set_changed_at_or_after(self) ==
    LET latest_change == get_validator_change
        blocks_ == get_block_containing_tx(self.id)
    IN IF latest_change = NoChange THEN FALSE
       ELSE IF blocks_ = <<>> THEN FALSE
       ELSE latest_change.height >= blocks_[1]

\* Election.has_validator_set_changed
has_validator_set_changed(self) ==
    LET latest_change == get_validator_change
        blocks_ == get_block_containing_tx(self.id)
    IN IF latest_change = NoChange THEN FALSE
       ELSE IF blocks_ = <<>> THEN FALSE
       ELSE latest_change.height > blocks_[1]

\* (2/3) * total_votes, the total being converted to a float first;
\* OverflowError when the conversion raises.
float_two_thirds_of(total_votes) ==
    float_mul(ELECTION_THRESHOLD, float_of_int(total_votes))

\* Election.has_concluded, the test of the tallies against the threshold:
\* votes_committed < (2/3) * total_votes and
\* votes_committed + votes_current >= (2/3) * total_votes; OverflowError when
\* the product raises.
tallies_against(votes_committed, votes_reached, threshold) ==
    IF threshold = OverflowError THEN OverflowError
    ELSE /\ int_cmp_float(votes_committed, threshold) < 0
         /\ int_cmp_float(votes_reached, threshold) >= 0

supermajority(votes_committed, votes_current, total_votes) ==
    tallies_against(votes_committed, big_add(votes_committed, votes_current, 0),
                    float_two_thirds_of(total_votes))

\* has_concluded without the test that the committed votes are below the
\* threshold.
has_concluded_no_left(self, current_votes) ==
    LET election_pk == to_public_key(self.id)
        votes_committed == get_commited_votes(self)
        votes_current == count_votes(election_pk, current_votes)
        total_votes == sum_values(get_validators)
    IN IF has_validator_set_changed(self) THEN FALSE
       ELSE 3 * (votes_committed + votes_current) >= 2 * total_votes

\* has_concluded without the test of the validator set.
has_concluded_ignoring_change(self, current_votes) ==
    LET election_pk == to_public_key(self.id)
        votes_committed == get_commited_votes(self)
        votes_current == count_votes(election_pk, current_votes)
        total_votes == sum_values(get_validators)
    IN /\ 3 * votes_committed < 2 * total_votes
       /\ 3 * (votes_committed + votes_current) >= 2 * total_votes

\* has_concluded without the test that the votes of the block reach the
\* threshold.
has_concluded_below_only(self, current_votes) ==
    LET election_pk == to_public_key(self.id)
        votes_committed == get_commited_votes(self)
        total_votes == sum_values(get_validators)
    IN IF has_validator_set_changed(self) THEN FALSE
       ELSE 3 * votes_committed < 2 * total_votes

\* has_concluded with a threshold of half the total voting power.
has_concluded_simple_majority(self, current_votes) ==
    LET election_pk == to_public_key(self.id)
        votes_committed == get_commited_votes(self)
        votes_current == count_votes(election_pk, current_votes)
        total_votes == sum_values(get_validators)
    IN IF has_validator_set_changed(self) THEN FALSE
       ELSE /\ 2 * votes_committed < total_votes
            /\ 2 * (votes_committed + votes_current) >= total_votes

\* has_concluded reaching the threshold only when the votes exceed it.
has_concluded_strictly_above(self, current_votes) ==
    LET election_pk == to_public_key(self.id)
        votes_committed == get_commited_votes(self)
        votes_current == count_votes(election_pk, current_votes)
        total_votes == sum_values(get_validators)
    IN IF has_validator_set_changed(self) THEN FALSE
       ELSE /\ 3 * votes_committed < 2 * total_votes
            /\ 3 * (votes_committed + votes_current) > 2 * total_votes

\* Whether has_concluded raises: the validator set is unchanged and the total
\* voting power is too large for a float.
has_concluded_raises(self) ==
    /\ int_too_large(big(sum_values(get_validators)))
    /\ ~has_validator_set_changed(self)

\* Election.has_concluded: the tallies are integers, the threshold
\* (2/3) * total_votes is a float; the value is OverflowError when it raises.
has_concluded(self, current_votes) ==
    LET election_pk == to_public_key(self.id)
        votes_committed == get_commited_votes(self)
        votes_current == count_votes(election_pk, current_votes)
        current_validators == get_validators
        total_votes == sum_values(current_validators)
    IN IF has_validator_set_changed(self) THEN FALSE
       ELSE supermajority(big(votes_committed), big(votes_current), big(total_votes))

\* get_status with the two outcomes of the validator-set test exchanged.
get_status_swapped(self) ==
    IF get_election(self.id) THEN CONCLUDED
    ELSE IF has_validator_set_changed(self) THEN ONGOING ELSE INCONCLUSIVE

\* get_status testing the validator set before the persisted result.
get_status_change_first(self) ==
    IF has_validator_set_changed(self) THEN INCONCLUSIVE
    ELSE IF get_election(self.id) THEN CONCLUDED ELSE ONGOING

\* Election.get_status
get_status(self) ==
    IF get_election(self.id) THEN CONCLUDED
    ELSE IF has_validator_set_changed(self) THEN INCONCLUSIVE ELSE ONGOING

\* The grouping with each new election id put in front of the earlier ones.
RECURSIVE election_ids_newest_first(_, _)
RECURSIVE election_ids(_, _)
election_ids_newest_first(txns, elections) ==
    IF txns = <<>> THEN elections
    ELSE LET tx == txns[1]
         IN IF tx.op # VOTE THEN election_ids_newest_first(Tail(txns), elections)
            ELSE IF tx.asset_id \in Range(elections)
            THEN election_ids_newest_first(Tail(txns), elections)
            ELSE election_ids_newest_first(Tail(txns), <<tx.asset_id>> \o elections)

\* Election.approved_elections, first loop: election ids of the block's votes,
\* in order of first appearance (the keys of the OrderedDict).
election_ids(txns, elections) ==
    IF txns = <<>> THEN elections
    ELSE LET tx == txns[1]
         IN IF tx.op # VOTE THEN election_ids(Tail(txns), elections)
            ELSE IF tx.asset_id \in Range(elections)
            THEN election_ids(Tail(txns), elections)
            ELSE election_ids(Tail(txns), Append(elections, tx.asset_id))

\* The votes grouped under one election id (the values of the OrderedDict).
votes_of(txns, election_id) ==
    SelectSeq(txns, LAMBDA tx : tx.op = VOTE /\ tx.asset_id = election_id)

\* Election.store_election_results: the result of election_id at height is
\* written to the stored results.
store_election_results(stored, election_id, height) ==
    Append(stored, [election_id |-> election_id, height |-> height])

\* The stored results after the calls of store_election_results made by one
\* run of approved_elections, for the elections ids in order.
RECURSIVE results_after(_, _, _)
results_after(stored, ids, height) ==
    IF ids = <<>> THEN stored
    ELSE results_after(store_election_results(stored, ids[1], height), Tail(ids), height)

\* What the hook of the base class does when a subtype leaves it out.
NotImplementedError == "NotImplementedError"

\* The second loop leaving at a vote whose election is not stored.
RECURSIVE approve_loop_stops_at_unknown(_, _, _, _)
approve_loop_stops_at_unknown(ids, txns, on_approval, acc) ==
    IF ids = <<>> THEN acc
    ELSE LET election_id == ids[1]
             election == get_transaction(election_id)
         IN IF election = NoTx
            THEN acc
            ELSE IF has_concluded_raises(election)
            THEN [acc EXCEPT !.raised = TRUE, !.exception = OverflowError.raises]
            ELSE IF ~has_concluded(election, votes_of(txns, election_id))
            THEN approve_loop_stops_at_unknown(Tail(ids), txns, on_approval, acc)
            ELSE IF on_approval[election_id] = NotImplementedError
            THEN [acc EXCEPT !.approved = Append(@, election_id), !.raised = TRUE,
                             !.exception = NotImplementedError]
            ELSE approve_loop_stops_at_unknown(Tail(ids), txns, on_approval,
                    [validator_update |-> on_approval[election_id],
                     approved |-> Append(acc.approved, election_id),
                     stored |-> Append(acc.stored, election_id),
                     raised |-> FALSE,
                     exception |-> NULL])

\* The second loop going on to the next election when a hook raises.
RECURSIVE approve_loop_passing_over_failure(_, _, _, _)
approve_loop_passing_over_failure(ids, txns, on_approval, acc) ==
    IF ids = <<>> THEN acc
    ELSE LET election_id == ids[1]
             election == get_transaction(election_id)
         IN IF election = NoTx
            THEN approve_loop_passing_over_failure(Tail(ids), txns, on_approval, acc)
            ELSE IF has_concluded_raises(election)
            THEN [acc EXCEPT !.raised = TRUE, !.exception = OverflowError.raises]
            ELSE IF ~has_concluded(election, votes_of(txns, election_id))
            THEN approve_loop_passing_over_failure(Tail(ids), txns, on_approval, acc)
            ELSE IF on_approval[election_id] = NotImplementedError
            THEN approve_loop_passing_over_failure(Tail(ids), txns, on_approval,
                    [acc EXCEPT !.approved = Append(@, election_id)])
            ELSE approve_loop_passing_over_failure(Tail(ids), txns, on_approval,
                    [validator_update |-> on_approval[election_id],
                     approved |-> Append(acc.approved, election_id),
                     stored |-> Append(acc.stored, election_id),
                     raised |-> FALSE,
                     exception |-> NULL])

\* Election.approved_elections, second loop.  on_approval maps an election id
\* to what the subtype's hook returns, NotImplementedError when it raises.
\* acc holds validator_update, the elections whose hook was invoked, the
\* elections whose result was stored, whether the loop was left by an
\* exception, and which: NotImplementedError of the hook (line 280) or
\* OverflowError of has_concluded (line 277).
RECURSIVE approve_loop(_, _, _, _)
approve_loop(ids, txns, on_approval, acc) ==
    IF ids = <<>> THEN acc
    ELSE LET election_id == ids[1]
             election == get_transaction(election_id)
         IN IF election = NoTx
            THEN approve_loop(Tail(ids), txns, on_approval, acc)
            ELSE IF has_concluded_raises(election)
            THEN [acc EXCEPT !.raised = TRUE, !.exception = OverflowError.raises]
            ELSE IF ~has_concluded(election, votes_of(txns, election_id))
            THEN approve_loop(Tail(ids), txns, on_approval, acc)
            ELSE IF on_approval[election_id] = NotImplementedError
            THEN [acc EXCEPT !.approved = Append(@, election_id), !.raised = TRUE,
                             !.exception = NotImplementedError]
            ELSE approve_loop(Tail(ids), txns, on_approval,
                    [validator_update |-> on_approval[election_id],
                     approved |-> Append(acc.approved, election_id),
                     stored |-> Append(acc.stored, election_id),
                     raised |-> FALSE,
                     exception |-> NULL])

\* approved_elections wrapping validator_update in a list whatever it is.
approved_elections_returning_none(txns, on_approval) ==
    LET acc == approve_loop(election_ids(txns, <<>>), txns, on_approval,
                            [validator_update |-> NULL, approved |-> <<>>,
                             stored |-> <<>>, raised |-> FALSE,
                             exception |-> NULL])
    IN [validator_update |-> acc.validator_update,
        approved |-> acc.approved,
        stored |-> acc.stored,
        raised |-> acc.raised,
        exception |-> acc.exception,
        returned |-> IF ~acc.raised THEN <<acc.validator_update>> ELSE <<>>]

\* Election.approved_elections; returned is the list handed back to the
\* caller, nothing when the exception propagates.
approved_elections(txns, on_approval) ==
    LET acc == approve_loop(election_ids(txns, <<>>), txns, on_approval,
                            [validator_update |-> NULL, approved |-> <<>>,
                             stored |-> <<>>, raised |-> FALSE,
                             exception |-> NULL])
    IN [validator_update |-> acc.validator_update,
        approved |-> acc.approved,
        stored |-> acc.stored,
        raised |-> acc.raised,
        exception |-> acc.exception,
        returned |-> IF ~acc.raised /\ truthy(acc.validator_update)
                     THEN <<acc.validator_update>> ELSE <<>>]

(***************************************************************************)
(* Transactions offered to a block.                                        *)
(***************************************************************************)
\* Election.generate: an election proposed by initiator over voters.
election_tx(id, initiator, voters) ==
    [op |-> ELECTION, id |-> id, asset_id |-> "-", signers |-> <<<<initiator>>>>,
     outputs |-> voters, sig |-> TRUE, spends |-> 0]

\* A vote: spends output i of election and sends its tokens to the election key.
vote_tx(election, i) ==
    [op |-> VOTE, id |-> "v_" \o election.id \o "_" \o ToString(i),
     asset_id |-> election.id, signers |-> <<election.outputs[i].public_keys>>,
     outputs |-> <<Output(<<to_public_key(election.id)>>, election.outputs[i].amount)>>,
     sig |-> TRUE, spends |-> i]

\* The base transaction layer accepts a vote that spends an unspent output of
\* its election, the election being committed or earlier in the block.
vote_valid(tx, current_transactions) ==
    LET known == committed_txs \o current_transactions
        found == {i \in DOMAIN known : known[i].id = tx.asset_id /\ known[i].op = ELECTION}
    IN /\ \A i \in DOMAIN known : known[i].id # tx.id
       /\ found # {}
       /\ LET election == known[CHOOSE i \in found : TRUE]
          IN /\ tx.spends \in DOMAIN election.outputs
             /\ tx = vote_tx(election, tx.spends)
             /\ \A i \in DOMAIN known :
                   ~(known[i].op = VOTE /\ known[i].asset_id = tx.asset_id
                     /\ known[i].spends = tx.spends)

admitted(tx, current_transactions) ==
    IF tx.op = ELECTION THEN validate(tx, current_transactions) = "OK"
    ELSE vote_valid(tx, current_transactions)

\* Transactions a block may be built from in the current state.
offered_elections ==
    {election_tx(id, recipients[1].public_keys[1], recipients) : id \in ElectionIds}

offered_txs ==
    LET elections == offered_elections \cup
                     {tx \in Range(committed_txs) : tx.op = ELECTION}
    IN offered_elections \cup
       UNION {{vote_tx(e, i) : i \in DOMAIN e.outputs} : e \in elections}

\* An election is proposed once the ids before its own are taken.
in_order(tx, current_transactions) ==
    tx.op = ELECTION =>
        \A i \in DOMAIN ElectionOrder :
            (\E j \in DOMAIN ElectionOrder : j > i /\ ElectionOrder[j] = tx.id)
            => \/ is_committed(ElectionOrder[i])
               \/ \E k \in DOMAIN current_transactions :
                     current_transactions[k].id = ElectionOrder[i]

\* Blocks of n transactions, each admitted after the ones before it.
RECURSIVE blocks_of_length(_, _)
blocks_of_length(n, txs) ==
    IF n = 0 THEN {<<>>}
    ELSE {Append(q[1], q[2]) :
             q \in {q \in blocks_of_length(n - 1, txs) \X txs :
                       in_order(q[2], q[1]) /\ admitted(q[2], q[1])}}

offered_blocks ==
    LET txs == offered_txs
    IN UNION {blocks_of_length(n, txs) : n \in 0..MaxBlockTxs}

(***************************************************************************)
(* Actions.                                                                *)
(***************************************************************************)
NoInput == [tx |-> NoTx, current_transactions |-> <<>>]

Init ==
    /\ blocks = <<>>
    /\ changes = <<[height |-> 0, validators |-> ValidatorsA2B1]>>
    /\ results = <<>>
    /\ approvals = <<>>
    /\ updates = <<>>
    /\ ret = <<>>
    /\ vin = NoInput
    /\ vout = "-"

\* A block of admitted transactions is processed: approved_elections runs on
\* the block's transactions at new_height, each concluding election's
\* on_approval hook returning an update or null, then the block is stored.
CommitBlock ==
    /\ Len(blocks) < MaxHeight
    /\ \E txns \in offered_blocks :
          LET new_height == Len(blocks) + 1
              concluding == Range(approved_elections(txns,
                                [id \in ElectionIds |-> NULL]).approved)
          IN \E returns \in [concluding -> {TRUE, FALSE}] :
                LET on_approval == [id \in ElectionIds |->
                                       IF id \in concluding /\ returns[id]
                                       THEN "update_" \o id ELSE NULL]
                    out == approved_elections(txns, on_approval)
                IN /\ approvals' = approvals \o
                         [i \in DOMAIN out.approved |->
                             [election_id |-> out.approved[i], height |-> new_height]]
                   /\ updates' = [i \in DOMAIN out.approved |->
                                     on_approval[out.approved[i]]]
                   /\ results' = results_after(results, out.stored, new_height)
                   /\ ret' = out.returned
                   /\ blocks' = Append(blocks, txns)
    /\ UNCHANGED <<changes, vin, vout>>

\* The consensus engine reports a validator set that differs from the current
\* one; the change is recorded at the height of the latest block.
ValidatorChange ==
    /\ Len(blocks) >= 1
    /\ Len(changes) <= MaxChanges
    /\ changes[Len(changes)].height < Len(blocks)
    /\ \E validators \in ValidatorLists :
          /\ validators # bigchain_get_validators
          /\ changes' = Append(changes, [height |-> Len(blocks),
                                         validators |-> validators])
    /\ UNCHANGED <<blocks, results, approvals, updates, ret, vin, vout>>

Next == CommitBlock \/ ValidatorChange

Spec == Init /\ [][Next]_vars

(***************************************************************************)
(* validate as a function of its inputs: the chain, the validator set, the *)
(* election and the transactions validated along with it.                  *)
(***************************************************************************)
Keys == {"A", "B", "D"}
Amounts == {1, 2}

OutputChoices ==
    {Output(<<k>>, a) : <<k, a>> \in Keys \X Amounts}
    \cup {Output(<<"A", "B">>, 2), Output(<<>>, 1)}

SignerChoices == {<<<<"A">>>>, <<<<"D">>>>, <<<<"A", "B">>>>, <<<<"A">>, <<"B">>>>}

ValidateCandidates ==
    {[op |-> ELECTION, id |-> id, asset_id |-> "-", signers |-> signers,
      outputs |-> outputs, sig |-> sig, spends |-> 0] :
        id \in ElectionIds, signers \in SignerChoices, sig \in BOOLEAN,
        outputs \in UNION {[1..n -> OutputChoices] : n \in 0..MaxOutputs}}

PendingChoices ==
    {<<>>, <<[NoTx EXCEPT !.op = TRANSFER, !.id = "e1"]>>,
     <<[NoTx EXCEPT !.op = TRANSFER, !.id = "t1"],
       [NoTx EXCEPT !.op = ELECTION, !.id = "e2"]>>}

InitValidate ==
    /\ blocks \in {<<>>, <<<<election_tx("e1", "A", <<Output(<<"A">>, 1)>>)>>>>}
    /\ \E validators \in ValidatorLists \cup {<<>>} :
          changes = <<[height |-> 0, validators |-> validators]>>
    /\ results = <<>>
    /\ approvals = <<>>
    /\ updates = <<>>
    /\ ret = <<>>
    /\ \E tx \in ValidateCandidates, current_transactions \in PendingChoices :
          vin = [tx |-> tx, current_transactions |-> current_transactions]
    /\ vout = "-"

Validate ==
    /\ vout = "-"
    /\ vout' = validate(vin.tx, vin.current_transactions)
    /\ UNCHANGED <<blocks, changes, results, approvals, updates, ret, vin>>

NextValidate == Validate

SpecValidate == InitValidate /\ [][NextValidate]_vars

(***************************************************************************)
(* count_votes as a function of its inputs: the election key and a list of *)
(* transactions.                                                           *)
(***************************************************************************)
CountOutputChoices ==
    {Output(<<to_public_key("e1")>>, 1), Output(<<"A">>, 2),
     Output(<<to_public_key("e1"), "A">>, 4)}

CountCandidates ==
    {[NoTx EXCEPT !.op = op, !.id = "t", !.asset_id = "e1", !.outputs = outputs] :
        op \in {VOTE, TRANSFER},
        outputs \in UNION {[1..n -> CountOutputChoices] : n \in 0..MaxOutputs}}

InitCount ==
    /\ blocks = <<>>
    /\ changes = <<[height |-> 0, validators |-> ValidatorsA2B1]>>
    /\ results = <<>>
    /\ approvals = <<>>
    /\ updates = <<>>
    /\ ret = <<>>
    /\ \E transactions \in UNION {[1..n -> CountCandidates] : n \in 0..MaxBlockTxs} :
          vin = [election_pk |-> to_public_key("e1"), transactions |-> transactions]
    /\ vout = <<>>

CountVotes ==
    /\ vout = <<>>
    /\ vout' = <<count_votes(vin.election_pk, vin.transactions)>>
    /\ UNCHANGED <<blocks, changes, results, approvals, updates, ret, vin>>

NextCount == CountVotes

SpecCount == InitCount /\ [][NextCount]_vars

(***************************************************************************)
(* has_concluded as a function of its inputs: the validators, the votes    *)
(* committed for the election and the votes of the block being processed.  *)
(***************************************************************************)
\* Validators A and B sharing a total voting power.
validators_of_power(total) ==
    IF total = 0 THEN <<>>
    ELSE IF total = 1 THEN <<Validator("QQ==", 1)>>
    ELSE <<Validator("QQ==", total - total \div 2), Validator("Qg==", total \div 2)>>

\* A vote transaction sending amount tokens of the election to its key.
tokens_tx(id, election_id, amount) ==
    [op |-> VOTE, id |-> id, asset_id |-> election_id, signers |-> <<<<"A">>>>,
     outputs |-> <<Output(<<to_public_key(election_id)>>, amount)>>,
     sig |-> TRUE, spends |-> 1]

tokens_txs(id, election_id, amount) ==
    IF amount = 0 THEN <<>> ELSE <<tokens_tx(id, election_id, amount)>>

InitConcluded ==
    /\ \E total \in 0..MaxPower, committed \in 0..MaxPower, pending \in 0..MaxPower,
          changed \in BOOLEAN :
          LET election == election_tx("e1", "A", <<Output(<<"A">>, 1)>>)
          IN /\ blocks = <<<<election>>, tokens_txs("v1", "e1", committed)>>
             /\ changes = IF changed
                          THEN <<[height |-> 0, validators |-> ValidatorsA1],
                                 [height |-> 2, validators |-> validators_of_power(total)]>>
                          ELSE <<[height |-> 0, validators |-> validators_of_power(total)]>>
             /\ vin = [election |-> election,
                       current_votes |-> tokens_txs("v2", "e1", pending),
                       total |-> total, committed |-> committed, pending |-> pending]
    /\ results = <<>>
    /\ approvals = <<>>
    /\ updates = <<>>
    /\ ret = <<>>
    /\ vout = <<>>

HasConcluded ==
    /\ vout = <<>>
    /\ vout' = <<has_concluded(vin.election, vin.current_votes)>>
    /\ UNCHANGED <<blocks, changes, results, approvals, updates, ret, vin>>

NextConcluded == HasConcluded

SpecConcluded == InitConcluded /\ [][NextConcluded]_vars

(***************************************************************************)
(* The threshold test on tallies of any size: the numbers are held as     *)
(* limbs, so that voting powers beyond the precision of a float are among  *)
(* the inputs.  The step is the one approved_elections takes for an        *)
(* election whose validator set is unchanged: the test of has_concluded,   *)
(* and, when it is passed, the hook invoked (returning None) and the       *)
(* result stored; nothing when the test raises.                            *)
(***************************************************************************)
\* 3 * 2^50 and 3414710489136880: total voting powers next to which the
\* float threshold leaves two thirds of the total.
LargeTotalAnchors == {<<0, 0, 0, 96>>, <<16112, 31598, 1700, 97>>}

\* 2^1024 - 2^970 - 1: the largest total voting power a float can take.
LargestFloatTotal ==
    [i \in 1..69 |-> IF i = 69 THEN 15 ELSE IF i = 65 THEN 31743 ELSE 32767]

\* 2^51 and 2276473659424585: tallies next to two thirds of those totals.
LargeTallyAnchors == {<<0, 0, 0, 64>>, <<32585, 10142, 22979, 64>>}

near(anchors) == {big_add(a, big(d), 0) : <<a, d>> \in anchors \X (0..MaxOffset)}

ThresholdTotals ==
    {big(n) : n \in 0..MaxPower} \cup near(LargeTotalAnchors \cup {LargestFloatTotal})

ThresholdTallies == {big(n) : n \in 0..MaxPower} \cup near(LargeTallyAnchors)

InitThreshold ==
    /\ vin \in [votes_committed : ThresholdTallies, votes_current : ThresholdTallies,
                total_votes : ThresholdTotals]
    /\ blocks = <<>>
    /\ changes = <<>>
    /\ results = <<>>
    /\ approvals = <<>>
    /\ updates = <<>>
    /\ ret = <<>>
    /\ vout = <<>>

ConcludeOnTallies ==
    /\ vout = <<>>
    /\ LET outcome == supermajority(vin.votes_committed, vin.votes_current,
                                    vin.total_votes)
           concluded == ~int_too_large(vin.total_votes) /\ outcome
       IN /\ vout' = <<outcome>>
          /\ approvals' = IF concluded
                          THEN Append(approvals, [election_id |-> "e1", height |-> 1])
                          ELSE approvals
          /\ updates' = IF concluded THEN <<NULL>> ELSE <<>>
          /\ results' = IF concluded THEN store_election_results(results, "e1", 1)
                        ELSE results
    /\ UNCHANGED <<blocks, changes, ret, vin>>

NextThreshold == ConcludeOnTallies

SpecThreshold == InitThreshold /\ [][NextThreshold]_vars

(***************************************************************************)
(* approved_elections as a function of its inputs: the chain, the          *)
(* transactions of the block being processed and the hooks of the          *)
(* elections.                                                              *)
(***************************************************************************)
\* The elections e1 and e2 proposed by A over the recipients of a validator
\* list.
elections_over(validators) ==
    [id \in ElectionIds |->
        election_tx(id, "A",
            recipients_from(validators, 1, validators_dict(validators, EmptyDict)))]

\* Chains handed to approved_elections: both elections committed, with and
\* without a committed vote, under two validator lists, and e1 alone.
DriverChains ==
    LET small == elections_over(ValidatorsA2B1)
        even == elections_over(ValidatorsA2B2)
    IN {[validators |-> ValidatorsA2B1, blocks |-> <<<<small["e1"], small["e2"]>>>>],
        [validators |-> ValidatorsA2B1,
         blocks |-> <<<<small["e1"], small["e2"]>>, <<vote_tx(small["e1"], 2)>>>>],
        [validators |-> ValidatorsA2B2, blocks |-> <<<<even["e1"], even["e2"]>>>>],
        [validators |-> ValidatorsA2B1, blocks |-> <<<<small["e1"]>>>>]}

\* Transactions of the block being processed: votes for e1 and e2, committed
\* or not, and a transfer of tokens of e2 to its key.
DriverCandidates(chain) ==
    LET elections == elections_over(chain.validators)
        committed == {chain.blocks[h][i].id :
                         <<h, i>> \in {q \in (DOMAIN chain.blocks) \X (1..2) :
                                          q[2] \in DOMAIN chain.blocks[q[1]]}}
        votes == {vote_tx(elections[id], i) : id \in ElectionIds, i \in 1..2}
    IN {tx \in votes : tx.id \notin committed}
       \cup {[NoTx EXCEPT !.op = TRANSFER, !.id = "t1", !.asset_id = "e2",
                          !.outputs = <<Output(<<to_public_key("e2")>>, 2)>>]}

DriverBlocks(chain) ==
    LET txs == DriverCandidates(chain)
    IN UNION {{q \in [1..n -> txs] : \A i, j \in 1..n : i # j => q[i] # q[j]} :
                 n \in 0..(MaxBlockTxs + 1)}

\* What the hooks of e1 and e2 do: return nothing, return an empty value,
\* return an update, raise.
DriverHooks ==
    {[id \in ElectionIds |-> IF h[id] = "update" THEN "update_" \o id ELSE h[id]] :
        h \in [ElectionIds -> {NULL, "", "update", NotImplementedError}]}

InitDriver ==
    /\ \E chain \in DriverChains :
          /\ blocks = chain.blocks
          /\ changes = <<[height |-> 0, validators |-> chain.validators]>>
          /\ \E txns \in DriverBlocks(chain), on_approval \in DriverHooks :
                vin = [txns |-> txns, on_approval |-> on_approval]
    /\ results = <<>>
    /\ approvals = <<>>
    /\ updates = <<>>
    /\ ret = <<>>
    /\ vout = <<>>

\* approved_elections(bigchain, new_height, txns) on its own: the results it
\* stores and the list it returns, or the exception that leaves it.
ApprovedElections ==
    /\ vout = <<>>
    /\ LET new_height == Len(blocks) + 1
           out == approved_elections(vin.txns, vin.on_approval)
       IN /\ approvals' = approvals \o
                [i \in DOMAIN out.approved |->
                    [election_id |-> out.approved[i], height |-> new_height]]
          /\ updates' = [i \in DOMAIN out.stored |-> vin.on_approval[out.stored[i]]]
          /\ results' = results_after(results, out.stored, new_height)
          /\ ret' = out.returned
          /\ vout' = <<IF out.raised THEN out.exception ELSE "OK">>
    /\ UNCHANGED <<blocks, changes, vin>>

NextDriver == ApprovedElections

SpecDriver == InitDriver /\ [][NextDriver]_vars

(***************************************************************************)
(* The commit boundary of a block.  The chain store and the caller of      *)
(* approved_elections are not in election.py; section 5 of the             *)
(* specification gives the discipline they follow: the results written by  *)
(* store_election_results and the returned update belong to the commit of  *)
(* the block, a failure of the driver aborts that commit, and the          *)
(* consensus layer may abort it for reasons of its own.                    *)
(***************************************************************************)
Aborted == "aborted"
Committed == "committed"

\* The stored results without those written at height.
discard_block(stored, height) ==
    SelectSeq(stored, LAMBDA result : result.height # height)

\* The commit of the block is aborted after approved_elections has returned
\* or raised: what was written at the block's height and the update handed
\* back are discarded with the block.
AbortBlock ==
    /\ Len(vout) = 1
    /\ results' = discard_block(results, Len(blocks) + 1)
    /\ ret' = <<>>
    /\ vout' = Append(vout, Aborted)
    /\ UNCHANGED <<blocks, changes, approvals, updates, vin>>

\* The commit of the block completes; only a call of approved_elections that
\* returned lets it complete.
EndBlock ==
    /\ vout = <<"OK">>
    /\ blocks' = Append(blocks, vin.txns)
    /\ vout' = Append(vout, Committed)
    /\ UNCHANGED <<changes, results, approvals, updates, ret, vin>>

NextBlock == ApprovedElections \/ AbortBlock \/ EndBlock

SpecBlock == InitDriver /\ [][NextBlock]_vars

(***************************************************************************)
(* has_validator_set_changed as a function of its inputs: the chain, the   *)
(* validator changes on record and the election.                           *)
(***************************************************************************)
\* The validator changes recorded at a set of heights, in order of height.
RECURSIVE changes_at(_, _)
changes_at(heights, h) ==
    IF h > MaxHeight + 1 THEN <<>>
    ELSE (IF h \in heights
          THEN <<[height |-> h,
                  validators |-> IF h % 2 = 0 THEN ValidatorsA2B1 ELSE ValidatorsA2B2]>>
          ELSE <<>>)
         \o changes_at(heights, h + 1)

InitChanged ==
    /\ \E n \in 0..MaxHeight :
          \E at \in 0..n, heights \in SUBSET (0..n) :
             LET election == election_tx("e1", "A", <<Output(<<"A">>, 2), Output(<<"B">>, 1)>>)
             IN /\ blocks = [h \in 1..n |-> IF h = at THEN <<election>> ELSE <<>>]
                /\ changes = changes_at(heights, 0)
                /\ vin = [election |-> election, height |-> at]
    /\ results = <<>>
    /\ approvals = <<>>
    /\ updates = <<>>
    /\ ret = <<>>
    /\ vout = <<>>

HasValidatorSetChanged ==
    /\ vout = <<>>
    /\ vout' = <<has_validator_set_changed(vin.election)>>
    /\ UNCHANGED <<blocks, changes, results, approvals, updates, ret, vin>>

NextChanged == HasValidatorSetChanged

SpecChanged == InitChanged /\ [][NextChanged]_vars

(***************************************************************************)
(* is_same_topology as a function of its inputs: the validator map and the *)
(* outputs of the election.                                                *)
(***************************************************************************)
InitTopology ==
    /\ blocks = <<>>
    /\ \E validators \in ValidatorLists \cup {<<>>} :
          /\ changes = <<[height |-> 0, validators |-> validators]>>
          /\ \E outputs \in UNION {[1..n -> OutputChoices] : n \in 0..MaxOutputs} :
                vin = [current_topology |-> validators_dict(validators, EmptyDict),
                       election_topology |-> outputs]
    /\ results = <<>>
    /\ approvals = <<>>
    /\ updates = <<>>
    /\ ret = <<>>
    /\ vout = <<>>

IsSameTopology ==
    /\ vout = <<>>
    /\ vout' = <<is_same_topology(vin.current_topology, vin.election_topology)>>
    /\ UNCHANGED <<blocks, changes, results, approvals, updates, ret, vin>>

NextTopology == IsSameTopology

SpecTopology == InitTopology /\ [][NextTopology]_vars

(***************************************************************************)
(* The methods of an election called around approved_elections: each call  *)
(* leaves <<outcome of approved_elections or "-", method, outcome>> in     *)
(* vout.                                                                   *)
(***************************************************************************)
called(method, outcome) ==
    (IF vout = <<>> THEN <<"-">> ELSE <<vout[1]>>) \o <<method, outcome>>

\* Elections handed to validate: e1 and e2 over the current validators, as
\* proposed by A and by a key that is no validator.
CallCandidates ==
    LET over == elections_over(bigchain_get_validators)
    IN {[over[id] EXCEPT !.signers = <<<<k>>>>] : id \in ElectionIds, k \in {"A", "D"}}

CallValidate ==
    /\ Len(vout) <= 1
    /\ \E tx \in CallCandidates, current_transactions \in {<<>>, vin.txns} :
          vout' = called("validate", validate(tx, current_transactions))
    /\ UNCHANGED <<blocks, changes, results, approvals, updates, ret, vin>>

CallCountVotes ==
    /\ Len(vout) <= 1
    /\ \E id \in ElectionIds :
          vout' = called("count_votes", count_votes(to_public_key(id), vin.txns))
    /\ UNCHANGED <<blocks, changes, results, approvals, updates, ret, vin>>

CallGetCommitedVotes ==
    /\ Len(vout) <= 1
    /\ \E id \in ElectionIds :
          /\ get_transaction(id) # NoTx
          /\ vout' = called("get_commited_votes", get_commited_votes(get_transaction(id)))
    /\ UNCHANGED <<blocks, changes, results, approvals, updates, ret, vin>>

CallHasConcluded ==
    /\ Len(vout) <= 1
    /\ \E id \in ElectionIds :
          /\ get_transaction(id) # NoTx
          /\ vout' = called("has_concluded",
                            has_concluded(get_transaction(id), votes_of(vin.txns, id)))
    /\ UNCHANGED <<blocks, changes, results, approvals, updates, ret, vin>>

CallHasValidatorSetChanged ==
    /\ Len(vout) <= 1
    /\ \E id \in ElectionIds :
          /\ get_transaction(id) # NoTx
          /\ vout' = called("has_validator_set_changed",
                            has_validator_set_changed(get_transaction(id)))
    /\ UNCHANGED <<blocks, changes, results, approvals, updates, ret, vin>>

CallGetStatus ==
    /\ Len(vout) <= 1
    /\ \E id \in ElectionIds :
          /\ get_transaction(id) # NoTx
          /\ vout' = called("get_status", get_status(get_transaction(id)))
    /\ UNCHANGED <<blocks, changes, results, approvals, updates, ret, vin>>

\* store_election_results called on its own, for a stored election at the
\* height of the block being processed.
CallStoreElectionResults ==
    /\ Len(vout) <= 1
    /\ \E id \in ElectionIds :
          /\ get_transaction(id) # NoTx
          /\ results' = store_election_results(results, id, Len(blocks) + 1)
          /\ vout' = called("store_election_results", NULL)
    /\ UNCHANGED <<blocks, changes, approvals, updates, ret, vin>>

NextMethods ==
    \/ ApprovedElections
    \/ CallStoreElectionResults
    \/ CallValidate
    \/ CallCountVotes
    \/ CallGetCommitedVotes
    \/ CallHasConcluded
    \/ CallHasValidatorSetChanged
    \/ CallGetStatus

SpecMethods == InitDriver /\ [][NextMethods]_vars

(***************************************************************************)
(* Properties.                                                             *)
(***************************************************************************)
committed_elections == {tx \in Range(committed_txs) : tx.op = ELECTION}

\* Height of the block holding a committed transaction.
height_of(id) == get_block_containing_tx(id)[1]

\* Height of the latest validator change on record.
latest_change_height == changes[Len(changes)].height

\* Total voting power of the validators the chain reports now.
total_power ==
    LET list == bigchain_get_validators
    IN IF list = <<>> THEN 0
       ELSE LET RECURSIVE add(_)
                add(i) == IF i = 0 THEN 0 ELSE list[i].voting_power + add(i - 1)
            IN add(Len(list))

\* Valid votes for election id in the blocks up to height h.
RECURSIVE votes_upto(_, _)
votes_upto(id, h) ==
    IF h = 0 THEN 0
    ELSE count_votes(to_public_key(id), blocks[h]) + votes_upto(id, h - 1)

times_in(log, id) == Cardinality({i \in DOMAIN log : log[i].election_id = id})

\* C1: over any sequence of processed blocks, on_approval is invoked at most
\* once and store_election_results is called at most once for every election,
\* also when valid votes for it arrive in blocks after its approval.
C1_ExactlyOnceApproval ==
    \A id \in ElectionIds :
        times_in(approvals, id) <= 1 /\ times_in(results, id) <= 1

\* An approved election, its validator set unchanged, received a valid vote in
\* a block after the one that approved it.
C1_Witness ==
    \E i \in DOMAIN results : \E h \in DOMAIN blocks :
        /\ h > results[i].height
        /\ count_votes(to_public_key(results[i].election_id), blocks[h]) > 0
        /\ ~has_validator_set_changed(get_transaction(results[i].election_id))

\* C2: every committed election whose validator set has not changed and whose
\* committed valid votes reach 2/3 of the total power has an ElectionResult,
\* stored at the first height at which the votes reached that threshold.
C2_ResultAtFirstSupermajority ==
    \A e \in committed_elections :
        (/\ latest_change_height < height_of(e.id)
         /\ 3 * votes_upto(e.id, Len(blocks)) >= 2 * total_power)
        => \E i \in DOMAIN results :
              /\ results[i].election_id = e.id
              /\ 3 * votes_upto(e.id, results[i].height) >= 2 * total_power
              /\ 3 * votes_upto(e.id, results[i].height - 1) < 2 * total_power

\* Lists of pending votes for an election: votes spending some of its outputs.
RECURSIVE votes_spending(_, _, _)
votes_spending(e, i, outputs) ==
    IF i > Len(e.outputs) THEN <<>>
    ELSE (IF i \in outputs THEN <<vote_tx(e, i)>> ELSE <<>>)
         \o votes_spending(e, i + 1, outputs)

pending_votes(e) == {votes_spending(e, 1, outputs) : outputs \in SUBSET DOMAIN e.outputs}

C3_Killed ==
    \A e \in committed_elections :
        latest_change_height > height_of(e.id)
        => /\ \A votes \in pending_votes(e) : ~has_concluded(e, votes)
           /\ get_status(e) \in {INCONCLUSIVE, CONCLUDED}

C3_NoLateConclusion ==
    \A id \in ElectionIds :
        get_status([NoTx EXCEPT !.id = id]) = INCONCLUSIVE
        => get_status([NoTx EXCEPT !.id = id])' # CONCLUDED

\* C3: when the latest validator change is higher than the block of election
\* E, has_concluded(E, votes) is false for every list of pending votes,
\* get_status(E) is Inconclusive or Concluded, and no step takes E from
\* Inconclusive to Concluded.
C3_ValidatorChangeKillsElection == []C3_Killed /\ [][C3_NoLateConclusion]_vars

\* An election whose validator set changed after its block is Inconclusive
\* although its committed votes, cast after the change, are a supermajority.
C3_Witness ==
    \E e \in committed_elections :
        /\ latest_change_height > height_of(e.id)
        /\ get_status(e) = INCONCLUSIVE
        /\ 3 * get_commited_votes(e) >= 2 * total_power
        /\ \E h \in DOMAIN blocks :
              /\ h > latest_change_height
              /\ count_votes(to_public_key(e.id), blocks[h]) > 0

\* C4: the list approved_elections returns holds the non-null update of every
\* election approved in the block, one per election, in approval order.
C4_ReturnsAllUpdates ==
    LET returned == SelectSeq(updates, LAMBDA u : u # NULL)
    IN /\ Len(ret) = Len(returned)
       /\ \A i \in DOMAIN returned : ret[i] = returned[i]

\* The validator map read from the latest validator change.
validator_map ==
    LET list == bigchain_get_validators
    IN [k \in {public_key_from_base64(list[i].public_key.value) : i \in DOMAIN list} |->
           LET i == CHOOSE i \in DOMAIN list :
                       public_key_from_base64(list[i].public_key.value) = k
           IN list[i].voting_power]

\* The outputs are exactly one single-key output per validator, with its power.
outputs_mirror(outputs, validators) ==
    /\ Len(outputs) = Cardinality(DOMAIN validators)
    /\ \A k \in DOMAIN validators :
          \E i \in DOMAIN outputs : outputs[i] = Output(<<k>>, validators[k])

\* The validate call has a fresh id, a valid signature and a single proposer.
well_formed_call ==
    /\ vout # "-"
    /\ \A tx \in Range(committed_txs) : tx.id # vin.tx.id
    /\ \A tx \in Range(vin.current_transactions) : tx.id # vin.tx.id
    /\ vin.tx.sig
    /\ Len(vin.tx.signers) = 1
    /\ Len(vin.tx.signers[1]) = 1

\* C5: for every election validate accepts, the multiset of (public key,
\* amount) over its outputs equals the validator map: one output per
\* validator, with its voting power; two outputs to one validator are rejected.
C5_OutputsMirrorValidators ==
    vout = "OK" => outputs_mirror(vin.tx.outputs, validator_map)

\* C6: for a fresh, validly signed election whose single proposer is a
\* validator, validate raises UnequalValidatorSet whenever the outputs omit a
\* validator, name a key that is no validator or give a validator an amount
\* other than its power, and returns the election when the outputs equal the
\* validator map.
C6_TotalTopologyEquality ==
    LET outputs == vin.tx.outputs
        validators == validator_map
        omits == \E k \in DOMAIN validators :
                    \A i \in DOMAIN outputs : outputs[i].public_keys # <<k>>
        foreign == \E i \in DOMAIN outputs :
                      \E k \in Range(outputs[i].public_keys) : k \notin DOMAIN validators
        differs == \E i \in DOMAIN outputs : \E k \in DOMAIN validators :
                      /\ outputs[i].public_keys = <<k>>
                      /\ outputs[i].amount # validators[k]
    IN (well_formed_call /\ vin.tx.signers[1][1] \in DOMAIN validators)
       => /\ (omits \/ foreign \/ differs) => vout = "UnequalValidatorSet"
          /\ outputs_mirror(outputs, validators) => vout = "OK"

\* C7: for a fresh, validly signed election with one input and one signer,
\* validate raises InvalidProposer exactly when the proposer is not a key of
\* the validator map, whatever the outputs are.
C7_InvalidProposer ==
    well_formed_call
    => (vout = "InvalidProposer" <=> vin.tx.signers[1][1] \notin DOMAIN validator_map)

\* InvalidProposer was raised for an election whose outputs do not match the
\* (non-empty) validator map either.
C7_Witness ==
    /\ vout = "InvalidProposer"
    /\ DOMAIN validator_map # {}
    /\ ~outputs_mirror(vin.tx.outputs, validator_map)
    /\ \A i \in DOMAIN vin.tx.outputs : Len(vin.tx.outputs[i].public_keys) = 1

\* Elections probing the duplicate check: any id, signature and signers.
DuplicateProbes ==
    {[op |-> ELECTION, id |-> id, asset_id |-> "-", signers |-> signers,
      outputs |-> <<>>, sig |-> sig, spends |-> 0] :
        id \in ElectionIds,
        signers \in {<<<<"A">>>>, <<<<"D">>>>, <<<<"A">>, <<"D">>>>},
        sig \in BOOLEAN}

\* C8: validate raises DuplicateTransaction, ahead of every other check, when
\* the election id is committed or is the id of a transaction validated along
\* with it; and no election id is committed twice.
C8_NoDuplicateElection ==
    /\ \A tx \in DuplicateProbes, current_transactions \in PendingChoices :
          ((\E c \in Range(committed_txs) : c.id = tx.id)
           \/ (\E c \in Range(current_transactions) : c.id = tx.id))
          => validate(tx, current_transactions) = "DuplicateTransaction"
    /\ \A id \in ElectionIds :
          Cardinality({i \in DOMAIN committed_txs : committed_txs[i].id = id}) <= 1

\* A block was built while a committed election was offered again, and
\* validate rejects that election as a duplicate even with a bad signature.
C8_Witness ==
    \E e \in committed_elections :
        /\ height_of(e.id) < Len(blocks)
        /\ validate([e EXCEPT !.sig = FALSE], <<>>) = "DuplicateTransaction"

\* C9: get_status is Concluded exactly when a result is persisted for the
\* election, also after a validator change; without a result it is
\* Inconclusive exactly when has_validator_set_changed holds, else Ongoing.
C9_StatusPriority ==
    \A id \in ElectionIds :
        LET self == [NoTx EXCEPT !.id = id]
            persisted == \E r \in Range(results) : r.election_id = id
        IN /\ get_status(self) = CONCLUDED <=> persisted
           /\ ~persisted =>
                 (get_status(self) = INCONCLUSIVE <=> has_validator_set_changed(self))
           /\ (~persisted /\ ~has_validator_set_changed(self)) =>
                 get_status(self) = ONGOING

\* An election with a persisted result whose validator set changed afterwards
\* is Concluded.
C9_Witness ==
    \E e \in committed_elections :
        /\ \E r \in Range(results) : r.election_id = e.id /\ r.height <= latest_change_height
        /\ has_validator_set_changed(e)
        /\ get_status(e) = CONCLUDED

C10_Terminal ==
    \A id \in ElectionIds :
        LET self == [NoTx EXCEPT !.id = id]
        IN /\ get_status(self) = CONCLUDED => get_status(self)' = CONCLUDED
           /\ get_status(self) = INCONCLUSIVE => get_status(self)' = INCONCLUSIVE

\* C10: once get_status(E) is Concluded it stays Concluded, and once it is
\* Inconclusive it stays Inconclusive, over every block, validator change and
\* approval run.
C10_TerminalStatuses == [][C10_Terminal]_vars

\* One election is Concluded and another Inconclusive, and a block was
\* processed and a validator change recorded after each reached that status.
C10_Witness ==
    \E e, f \in committed_elections :
        /\ get_status(e) = CONCLUDED
        /\ \E r \in Range(results) :
              r.election_id = e.id /\ r.height < Len(blocks)
                                   /\ r.height <= latest_change_height
        /\ get_status(f) = INCONCLUSIVE
        /\ latest_change_height < Len(blocks)

(***************************************************************************)
(* Vote counting.                                                          *)
(***************************************************************************)
\* The outputs that cast votes: positions <<i, j>> of the outputs of VOTE
\* transactions whose public_keys is exactly [election_pk].
casting_outputs(election_pk, transactions) ==
    {p \in (DOMAIN transactions) \X (1..MaxOutputs + 1) :
        /\ transactions[p[1]].op = VOTE
        /\ p[2] \in DOMAIN transactions[p[1]].outputs
        /\ transactions[p[1]].outputs[p[2]].public_keys = <<election_pk>>}

RECURSIVE sum_amounts(_, _)
sum_amounts(transactions, positions) ==
    IF positions = {} THEN 0
    ELSE LET p == CHOOSE q \in positions : TRUE
         IN transactions[p[1]].outputs[p[2]].amount
            + sum_amounts(transactions, positions \ {p})

\* C11: count_votes returns the sum of the amounts of the outputs of VOTE
\* transactions whose public_keys is exactly [election_pk]; transactions that
\* are not votes, outputs to other keys and outputs naming election_pk along
\* with other keys add nothing.
C11_CountVotes ==
    vout # <<>> =>
        vout[1] = sum_amounts(vin.transactions,
                              casting_outputs(vin.election_pk, vin.transactions))

\* A vote with an output to the election key and one naming it with another
\* key, next to a transfer to the election key: only the first output counts.
C11_Witness ==
    /\ vout = <<1>>
    /\ Len(vin.transactions) = 2
    /\ vin.transactions[1].op = VOTE
    /\ vin.transactions[1].outputs =
          <<Output(<<vin.election_pk>>, 1), Output(<<vin.election_pk, "A">>, 4)>>
    /\ vin.transactions[2].op = TRANSFER
    /\ vin.transactions[2].outputs = <<Output(<<vin.election_pk>>, 1)>>

(***************************************************************************)
(* Supermajority threshold.                                                *)
(***************************************************************************)
\* Three times a tally against twice the total, on limbs: -1, 0 or 1.
thirds_cmp(votes, total_votes) ==
    big_cmp(big_mul_limb(votes, 3, 0), big_mul_limb(total_votes, 2, 0))

\* The test on integers: committed votes below two thirds of the total and
\* committed plus pending votes at or above it.
integer_supermajority(votes_committed, votes_current, total_votes) ==
    /\ thirds_cmp(votes_committed, total_votes) < 0
    /\ thirds_cmp(big_add(votes_committed, votes_current, 0), total_votes) >= 0

\* C12: when the validator set has not changed since the election,
\* has_concluded is true exactly when 3 * committed < 2 * total and
\* 3 * (committed + pending) >= 2 * total, for all non-negative integer
\* values of the committed tally, the pending tally and the total power.
C12_IntegerThreshold ==
    vout # <<>> =>
        /\ ~int_too_large(vin.total_votes)
        /\ vout[1] <=> integer_supermajority(vin.votes_committed, vin.votes_current,
                                             vin.total_votes)

\* Within totals and tallies up to MaxPower, on chains built from them, the
\* value of has_concluded for an unchanged validator set is that of the
\* test on integers.
C12_Threshold ==
    (vout # <<>> /\ ~has_validator_set_changed(vin.election)) =>
        (vout[1] <=> (/\ 3 * vin.committed < 2 * vin.total
                      /\ 3 * (vin.committed + vin.pending) >= 2 * vin.total))

\* Total power 15 with 5 votes committed and 5 pending: the pending votes
\* reach the threshold exactly and the election concludes.
C12_Witness ==
    /\ vout = <<TRUE>>
    /\ ~has_validator_set_changed(vin.election)
    /\ vin.total = 15
    /\ vin.committed = 5
    /\ vin.pending = 5

(***************************************************************************)
(* Order of approval within a block.                                       *)
(***************************************************************************)
\* Position of the first vote for election id in the block, 0 when none.
first_vote(txns, id) ==
    LET at == {i \in DOMAIN txns : txns[i].op = VOTE /\ txns[i].asset_id = id}
    IN IF at = {} THEN 0 ELSE CHOOSE i \in at : \A j \in at : i <= j

\* The committed elections that all votes of the block for them conclude.
concluding_in(txns) ==
    {id \in ElectionIds :
        /\ first_vote(txns, id) > 0
        /\ get_transaction(id) # NoTx
        /\ has_concluded(get_transaction(id),
                         SelectSeq(txns, LAMBDA tx : tx.op = VOTE /\ tx.asset_id = id))}

\* C13: approved_elections invokes on_approval and stores results in the
\* order in which each election id first appears among the votes of the
\* block, every election being judged on all of the block's votes for it;
\* transactions that are not votes take no part in the grouping.
C13_ApprovalOrder ==
    vout # <<>> =>
        /\ \A i, j \in DOMAIN approvals :
              i < j => /\ first_vote(vin.txns, approvals[i].election_id) > 0
                       /\ first_vote(vin.txns, approvals[i].election_id)
                             < first_vote(vin.txns, approvals[j].election_id)
        /\ {approvals[i].election_id : i \in DOMAIN approvals} \subseteq concluding_in(vin.txns)
        /\ vout = <<"OK">> =>
              /\ {approvals[i].election_id : i \in DOMAIN approvals} = concluding_in(vin.txns)
              /\ results = approvals

\* A transfer of tokens of e2 comes first, then a vote for e1, then a vote for
\* e2: both elections conclude, e1 before e2.
C13_Witness ==
    /\ vout = <<"OK">>
    /\ Len(vin.txns) = 3
    /\ vin.txns[1].op = TRANSFER /\ vin.txns[1].asset_id = "e2"
    /\ vin.txns[2].op = VOTE /\ vin.txns[2].asset_id = "e1"
    /\ vin.txns[3].op = VOTE /\ vin.txns[3].asset_id = "e2"
    /\ Len(approvals) = 2
    /\ approvals[1].election_id = "e1"
    /\ approvals[2].election_id = "e2"

(***************************************************************************)
(* Votes for unknown elections.                                            *)
(***************************************************************************)
\* A vote whose asset id resolves to no stored transaction.
unknown_vote(tx) == tx.op = VOTE /\ get_transaction(tx.asset_id) = NoTx

ids_of(log) == [i \in DOMAIN log |-> log[i].election_id]

\* C14: votes whose asset id resolves to no stored transaction are skipped:
\* they raise no error, invoke no hook and store no result for that id, and
\* the other elections of the block are processed as if those votes were
\* absent.
C14_UnknownSkipped ==
    vout # <<>> =>
        LET without == SelectSeq(vin.txns, LAMBDA tx : ~unknown_vote(tx))
            expected == approved_elections(without, vin.on_approval)
        IN /\ ids_of(approvals) = expected.approved
           /\ ids_of(results) = expected.stored
           /\ ret = expected.returned
           /\ vout = <<IF expected.raised THEN expected.exception ELSE "OK">>
           /\ \A i \in DOMAIN approvals : get_transaction(approvals[i].election_id) # NoTx
           /\ \A i \in DOMAIN results : get_transaction(results[i].election_id) # NoTx

\* Only e1 is stored; the block holds a vote for e2 and then the vote of A
\* for e1: e1 is approved and nothing is recorded for e2.
C14_Witness ==
    /\ vout = <<"OK">>
    /\ Len(vin.txns) >= 2
    /\ unknown_vote(vin.txns[1])
    /\ vin.txns[2].op = VOTE /\ vin.txns[2].asset_id = "e1"
    /\ ids_of(results) = <<"e1">>
    /\ ids_of(approvals) = <<"e1">>

(***************************************************************************)
(* No conclusion without pending votes.                                    *)
(***************************************************************************)
C15_FalseWithoutVotes ==
    \A e \in committed_elections : ~has_concluded(e, <<>>)

C15_NoApprovalWithoutVotes ==
    \A id \in ElectionIds :
        (/\ get_election(id)
         /\ Len(blocks') = Len(blocks) + 1
         /\ votes_of(blocks'[Len(blocks')], id) = <<>>)
        => /\ times_in(approvals', id) = times_in(approvals, id)
           /\ times_in(results', id) = times_in(results, id)

\* C15: has_concluded with an empty list of pending votes returns false in
\* every state, whatever the committed tally and the total power; so an
\* election that has concluded at some height does not conclude again in a
\* later block that carries no new vote for it.
C15_FalseWithoutPending ==
    (vout # <<>> /\ vin.votes_current = <<>>) =>
        /\ ~int_too_large(vin.total_votes)
        /\ ~vout[1]

\* On the chains built from voting powers up to MaxPower, has_concluded
\* without pending votes is false for every committed election, and a block
\* without votes for an election adds no hook invocation and no result for
\* it.
C15_NoConclusionWithoutVotes ==
    []C15_FalseWithoutVotes /\ [][C15_NoApprovalWithoutVotes]_vars

\* An election with a result and a later block without any vote for it.
C15_Witness ==
    \E i \in DOMAIN results :
        /\ results[i].height < Len(blocks)
        /\ votes_of(blocks[Len(blocks)], results[i].election_id) = <<>>
        /\ blocks[Len(blocks)] # <<>>
        /\ ~has_concluded(get_transaction(results[i].election_id), <<>>)

(***************************************************************************)
(* Change of the validator set.                                            *)
(***************************************************************************)
\* C16: has_validator_set_changed is false when the chain has no block, when
\* no validator change is on record, or when the election is in no committed
\* block; otherwise it is true exactly when the height of the latest change
\* is strictly greater than the height of the election's block.
C16_ChangedAfterElection ==
    vout # <<>> =>
        (vout[1] <=> (/\ Len(blocks) > 0
                      /\ changes # <<>>
                      /\ vin.height > 0
                      /\ changes[Len(changes)].height > vin.height))

\* The latest change is recorded at the election's own height: not changed.
C16_Witness ==
    /\ vout = <<FALSE>>
    /\ vin.height > 0
    /\ Len(changes) > 1
    /\ changes[Len(changes)].height = vin.height

(***************************************************************************)
(* Outputs that do not name exactly one key.                               *)
(***************************************************************************)
\* C17: is_same_topology returns false, without raising, whenever some
\* output's public_keys does not hold exactly one key, be it empty or of two
\* or more keys.
C17_FalseOnBadCardinality ==
    (/\ vout # <<>>
     /\ \E i \in DOMAIN vin.election_topology :
           Len(vin.election_topology[i].public_keys) # 1)
    => vout[1] = [exc |-> "none", value |-> FALSE]

(***************************************************************************)
(* Empty validator set.                                                    *)
(***************************************************************************)
\* A well-formed call for an election with outputs, while the chain reports
\* no validator.
empty_set_call ==
    /\ well_formed_call
    /\ bigchain_get_validators = <<>>
    /\ Len(vin.tx.outputs) >= 1

\* C18 as stated: with an empty validator set, validate of an otherwise
\* well-formed election with at least one output raises UnequalValidatorSet.
C18_EmptySetUnequal ==
    empty_set_call => vout = "UnequalValidatorSet"

\* C18: with an empty validator set, validate of an otherwise well-formed
\* election with at least one output fails, and it fails with
\* InvalidProposer: no proposer is a key of the empty validator map, and the
\* proposer is checked before the outputs are compared.
C18_EmptySetInvalidProposer ==
    empty_set_call => vout = "InvalidProposer"

\* The validator set is empty and the election has single-key outputs.
C18_Witness ==
    /\ empty_set_call
    /\ vout = "InvalidProposer"
    /\ \A i \in DOMAIN vin.tx.outputs : Len(vin.tx.outputs[i].public_keys) = 1

(***************************************************************************)
(* What writes to the store.                                               *)
(***************************************************************************)
ReadingMethods ==
    {"validate", "count_votes", "get_commited_votes", "has_concluded",
     "has_validator_set_changed", "get_status"}

\* A call of validate, count_votes, get_commited_votes, has_concluded,
\* has_validator_set_changed or get_status, returning or raising, leaves the
\* stored results, the committed transactions and the validator changes as
\* they were.
C19_CallsLeaveStore ==
    (Len(vout') = 3 /\ vout'[2] \in ReadingMethods) =>
        /\ results' = results
        /\ blocks' = blocks
        /\ changes' = changes

\* approved_elections on a block without any vote stores nothing and returns
\* the empty list.
C19_NoVoteNoEffect ==
    (/\ vout = <<>>
     /\ Len(vout') = 1
     /\ \A i \in DOMAIN vin.txns : vin.txns[i].op # VOTE)
    => /\ results' = results
       /\ ret' = <<>>
       /\ vout' = <<"OK">>

\* C19: only approved_elections writes election results: validate,
\* count_votes, get_commited_votes, has_concluded, has_validator_set_changed
\* and get_status leave the stored results, the committed transactions and
\* the validator changes unchanged, whether they return or raise; and
\* approved_elections on a block without votes stores no result and returns
\* an empty list.
C19_OnlyDriverWrites ==
    [][C19_CallsLeaveStore /\ C19_NoVoteNoEffect]_vars

\* approved_elections has processed a block holding only a transfer, and
\* validate has then rejected an election: nothing is stored or returned.
C19_Witness ==
    /\ Len(vout) = 3
    /\ vout[1] = "OK"
    /\ vout[2] = "validate"
    /\ vout[3] = "InvalidProposer"
    /\ Len(vin.txns) = 1
    /\ vin.txns[1].op = TRANSFER
    /\ results = <<>>
    /\ ret = <<>>

(***************************************************************************)
(* Failure inside approved_elections.                                      *)
(***************************************************************************)
\* A hook invoked by approved_elections on the block raised.
hook_failed ==
    \E i \in DOMAIN approvals :
        vin.on_approval[approvals[i].election_id] = NotImplementedError

\* The height approved_elections was given for the block, the block being
\* stored only when its commit completes.
block_height ==
    IF Len(vout) = 2 /\ vout[2] = Committed THEN Len(blocks) ELSE Len(blocks) + 1

change_before(h) ==
    LET below == {i \in DOMAIN changes : changes[i].height < h}
    IN changes[CHOOSE i \in below : \A j \in below : j <= i]

\* Total voting power in effect while block h is processed.
power_before(h) ==
    LET list == change_before(h).validators
        RECURSIVE add(_)
        add(i) == IF i = 0 THEN 0 ELSE list[i].voting_power + add(i - 1)
    IN add(Len(list))

\* C21: every stored result was written while the validator set was
\* unchanged, the votes committed before being below 2/3 of the total power
\* and those votes plus the votes of the block reaching it, whatever the
\* size of the voting powers; no election has a result without a
\* supermajority of vote outputs.
C21_ResultHasSupermajority ==
    results # <<>> =>
        integer_supermajority(vin.votes_committed, vin.votes_current, vin.total_votes)

\* On the chains with voting powers up to MaxPower: every stored result
\* (E, h) was written while block h was processed, the validator set being
\* unchanged since the block of E, the votes committed before h being below
\* 2/3 of the total power and those votes plus the votes of block h
\* reaching it.
C21_SoundResults ==
    \A i \in DOMAIN results :
        LET id == results[i].election_id
            h == results[i].height
        IN /\ h \in DOMAIN blocks
           /\ is_committed(id)
           /\ height_of(id) < h
           /\ change_before(h).height <= height_of(id)
           /\ 3 * votes_upto(id, h - 1) < 2 * power_before(h)
           /\ 3 * votes_upto(id, h) >= 2 * power_before(h)
           /\ count_votes(to_public_key(id), blocks[h]) > 0

\* A result stored by a block whose votes added to votes committed earlier,
\* with a validator change recorded since.
C21_Witness ==
    \E i \in DOMAIN results :
        /\ votes_upto(results[i].election_id, results[i].height - 1) > 0
        /\ latest_change_height >= results[i].height

(***************************************************************************)
(* The votes an accepted election can gather: an election is validated,    *)
(* committed, and some of its outputs are spent by votes, part of them     *)
(* committed and part of them pending.                                     *)
(***************************************************************************)
TallyOutputChoices == {Output(<<k>>, a) : <<k, a>> \in {"A", "B"} \X Amounts}

TallyCandidates ==
    {election_tx("e1", "A", outputs) :
        outputs \in UNION {[1..n -> TallyOutputChoices] : n \in 1..MaxOutputs}}

InitTally ==
    /\ blocks = <<>>
    /\ \E validators \in ValidatorLists :
          changes = <<[height |-> 0, validators |-> validators]>>
    /\ results = <<>>
    /\ approvals = <<>>
    /\ updates = <<>>
    /\ ret = <<>>
    /\ \E tx \in TallyCandidates :
          \E committed \in SUBSET DOMAIN tx.outputs :
             \E pending \in SUBSET (DOMAIN tx.outputs \ committed) :
                vin = [tx |-> tx, current_transactions |-> <<>>,
                       committed |-> committed, pending |-> pending]
    /\ vout = "-"

\* The election validate accepted is committed in block 1 and the votes
\* spending the outputs in vin.committed in block 2.
CommitVotes ==
    /\ vout = "OK"
    /\ blocks = <<>>
    /\ blocks' = <<<<vin.tx>>, votes_spending(vin.tx, 1, vin.committed)>>
    /\ UNCHANGED <<changes, results, approvals, updates, ret, vin, vout>>

NextTally == Validate \/ CommitVotes

SpecTally == InitTally /\ [][NextTally]_vars

\* C22: for an election accepted by validate whose votes spend only its own
\* outputs, the committed tally plus the pending tally never exceeds the
\* total voting power of the validator map it was validated against.
C22_TallyWithinPower ==
    (vout = "OK" /\ blocks # <<>>) =>
        get_commited_votes(vin.tx)
          + count_votes(to_public_key(vin.tx.id), votes_spending(vin.tx, 1, vin.pending))
        <= sum_values(get_validators)

====
